---- MODULE Spec2Model ----
(***************************************************************************)
(* ChichiTk: the button state / colour model of chichitk/buttons.py and    *)
(* the render / zoom cycle of chichitk/pdf_display.py.                     *)
(*                                                                         *)
(* A button is a record holding the fields of BaseButton and of its        *)
(* subclass; a method is an operator from the record (or from the whole    *)
(* widget state, when it reaches outside the button) to its new value.     *)
(* Python's None is the string "None"; a 2x2 colour list indexed           *)
(* [selected][hovering] is a function BOOLEAN -> BOOLEAN -> colour.        *)
(***************************************************************************)
EXTENDS Integers, Sequences, FiniteSets, TLC

VARIABLES
    widget,         \* class of the widget under test and what it was built with
    btn,            \* button name -> BaseButton record
    calls,          \* user callbacks invoked so far, in order
    clicks,         \* <Button-1> events delivered so far
    color_sets,     \* set_color calls made so far
    reselected,     \* select() or deselect() has been called from outside
    packed,         \* DoubleIconButton: the sub-buttons currently packed
    double_status,  \* DoubleIconButton.__double_status
    pdf,            \* the PdfDisplay object
    pc,             \* where the thread that called into PdfDisplay stands
    threads,        \* targets of the Threads started and not yet run
    hist,           \* PdfDisplay: show_pdf / zoom calls so far, zooms since show_pdf,
                    \* files opened in a PdfWindow
    outcome         \* PlayerButtons: the last of __init__ / turn_on / turn_off to
                    \* run and the exception it raised

pdfVars == <<pdf, pc, threads, hist>>

vars == <<widget, btn, calls, clicks, color_sets, reselected, packed, double_status,
          pdf, pc, threads, hist, outcome>>

\* ------------------------------------------------------------------ bounds

MaxClicks == 3
MaxCalls == 3
MaxSetColor == 1
MaxOps == 3
MaxPlayerClicks == 2

\* ------------------------------------------------------------------ values

None == "None"

\* Python truthiness of an optional str: None and '' are falsy.
Truthy(x) == x # None /\ x # ""

\* Fallback without the fallback: the optional colour is stored as given.
Fallback_as_given(opt, base) == opt

\* `opt if opt else base`
Fallback(opt, base) == IF Truthy(opt) THEN opt ELSE base

\* [[a, b], [c, d]] indexed [selected][hovering]
Table(a, b, c, d) ==
    [s \in BOOLEAN |-> [h \in BOOLEAN |->
        IF ~s THEN (IF ~h THEN a ELSE b) ELSE (IF ~h THEN c ELSE d)]]

\* image_replace_colors(base_img, [('#ffffff', fg), ('#000000', bg)])
Image(fg, bg) == <<fg, bg>>

\* The keyword defaults of BaseButton.__init__.
DefaultColors ==
    [active_bg |-> "#070708", inactive_bg |-> "#000000",
     active_hover_bg |-> None, inactive_hover_bg |-> None,
     active_fg |-> "#13ce12", inactive_fg |-> "#888888",
     active_hover_fg |-> "#74d573", inactive_hover_fg |-> "#74d573",
     active_bar_color |-> None, inactive_bar_color |-> None,
     active_hover_bar_color |-> None, inactive_hover_bar_color |-> "#dcdcdc",
     off_fg |-> "#555555"]

IconKinds == {"IconButton", "ToggleIconButton"}
LabelKinds == {"LabelButton", "ToggleLabelButton"}
ToggleKinds == {"ToggleIconButton", "ToggleLabelButton"}

\* ------------------------------------------------------------------ config_colors

IconButton_config_colors(self) ==
    IF self.active
    THEN [self EXCEPT !.shown =
            [bg |-> self.bg_colors[self.selected][self.hovering],
             fg |-> self.fg_colors[self.selected][self.hovering],
             bar |-> self.bar_colors[self.selected][self.hovering],
             image |-> self.images[self.selected][self.hovering]]]
    ELSE [self EXCEPT !.shown =
            [bg |-> self.bg_colors[FALSE][FALSE],
             fg |-> self.off_fg,
             bar |-> self.bg_colors[FALSE][FALSE],
             image |-> self.off_icon]]

LabelButton_config_colors(self) ==
    IF self.active
    THEN [self EXCEPT !.shown =
            [bg |-> self.bg_colors[self.selected][self.hovering],
             fg |-> self.fg_colors[self.selected][self.hovering],
             bar |-> self.bar_colors[self.selected][self.hovering],
             image |-> None]]
    ELSE [self EXCEPT !.shown =
            [bg |-> self.bg_colors[FALSE][FALSE],
             fg |-> self.off_fg,
             bar |-> self.bg_colors[FALSE][FALSE],
             image |-> None]]

\* self.config_colors(): the method of the button's class.
config_colors(self) ==
    IF self.kind \in IconKinds THEN IconButton_config_colors(self)
    ELSE IF self.kind \in LabelKinds THEN LabelButton_config_colors(self)
    ELSE self

\* ------------------------------------------------------------------ constructors

BaseButton(command, popup_label, selectable, select_on_click, selected, c) ==
    LET active_bar_color == Fallback(c.active_bar_color, c.active_fg)
        inactive_bar_color == Fallback(c.inactive_bar_color, c.inactive_bg)
    IN  [kind |-> "BaseButton",
         selected |-> selected, hovering |-> FALSE, active |-> TRUE,
         click_command |-> command,
         toggle_command |-> None,
         selectable |-> selectable, select_on_click |-> select_on_click,
         popup_labels |-> [a \in BOOLEAN |->
            IF Truthy(popup_label)
            THEN (IF a THEN popup_label ELSE popup_label \o " : Inactive")
            ELSE None],
         off_fg |-> c.off_fg,
         bg_colors |-> Table(c.inactive_bg, Fallback(c.inactive_hover_bg, c.inactive_bg),
                             c.active_bg, Fallback(c.active_hover_bg, c.active_bg)),
         fg_colors |-> Table(c.inactive_fg, Fallback(c.inactive_hover_fg, c.inactive_fg),
                             c.active_fg, Fallback(c.active_hover_fg, c.active_fg)),
         bar_colors |-> Table(inactive_bar_color,
                              Fallback(c.inactive_hover_bar_color, inactive_bar_color),
                              active_bar_color,
                              Fallback(c.active_hover_bar_color, active_bar_color)),
         images |-> None, off_icon |-> None,
         shown |-> None,
         tool_tip |-> None,
         tip_open |-> 0]

IconButton(command, popup_label, selectable, select_on_click, selected, c) ==
    LET base == BaseButton(command, popup_label, selectable, select_on_click, selected, c)
        self == [base EXCEPT
                    !.kind = "IconButton",
                    !.images = [s \in BOOLEAN |-> [h \in BOOLEAN |->
                                  Image(base.fg_colors[s][h], base.bg_colors[s][h])]],
                    !.off_icon = Image(base.off_fg, base.bg_colors[FALSE][FALSE])]
    IN  config_colors(self)

LabelButton(command, popup_label, selectable, select_on_click, selected, c) ==
    LET base == BaseButton(command, popup_label, selectable, select_on_click, selected, c)
        self == [base EXCEPT !.kind = "LabelButton"]
    IN  config_colors(self)

\* command is the user's toggle command ("None" when not given); the click
\* command of the underlying IconButton is self.click, select_on_click False.
ToggleIconButton(command, popup_label, selectable, selected, c) ==
    LET self == IconButton("click", popup_label, selectable, FALSE, selected, c)
    IN  [self EXCEPT !.kind = "ToggleIconButton", !.toggle_command = command]

ToggleLabelButton(command, popup_label, selectable, selected, c) ==
    LET self == LabelButton("click", popup_label, selectable, FALSE, selected, c)
    IN  [self EXCEPT !.kind = "ToggleLabelButton", !.toggle_command = command]

\* ------------------------------------------------------------------ BaseButton methods

Which == {"bg", "fg", "bar"}

SetCell(tab, s, h, color) == [tab EXCEPT ![s][h] = color]

SetWhich(self, which, s, h, color) ==
    CASE which = "bg" -> [self EXCEPT !.bg_colors = SetCell(@, s, h, color)]
      [] which = "fg" -> [self EXCEPT !.fg_colors = SetCell(@, s, h, color)]
      [] which = "bar" -> [self EXCEPT !.bar_colors = SetCell(@, s, h, color)]

BaseButton_set_color(self, color, which, selected, hover, all) ==
    LET AllTab == [s \in BOOLEAN |-> [h \in BOOLEAN |-> color]]
        s1 == IF all
              THEN CASE which = "bg" -> [self EXCEPT !.bg_colors = AllTab]
                     [] which = "fg" -> [self EXCEPT !.fg_colors = AllTab]
                     [] which = "bar" -> [self EXCEPT !.bar_colors = AllTab]
              ELSE SetWhich(self, which, selected, hover, color)
    IN  config_colors(s1)

IconButton_set_color(self, color, which, selected, hover) ==
    LET s1 == CASE which = "bg" ->
                    [self EXCEPT !.bg_colors = SetCell(@, selected, hover, color),
                                 !.images = SetCell(@, selected, hover,
                                    Image(self.fg_colors[selected][hover], color))]
                [] which = "fg" ->
                    [self EXCEPT !.fg_colors = SetCell(@, selected, hover, color),
                                 !.images = SetCell(@, selected, hover,
                                    Image(color, self.bg_colors[selected][hover]))]
                [] which = "bar" ->
                    [self EXCEPT !.bar_colors = SetCell(@, selected, hover, color)]
    IN  config_colors(s1)

turn_on(self) == config_colors([self EXCEPT !.active = TRUE])

turn_off(self) == config_colors([self EXCEPT !.active = FALSE])

\* The calls made on self.tool_tip: tool_tip is the text of the last fadein not
\* yet faded out, tip_open the fadein calls made minus the fadeout calls made.
fadein(self, text) == [self EXCEPT !.tool_tip = text, !.tip_open = @ + 1]

fadeout(self) == [self EXCEPT !.tool_tip = None, !.tip_open = @ - 1]

\* hover_enter without the test of self.hovering.
hover_enter_again(self) ==
    LET s1 == [self EXCEPT !.hovering = TRUE]
        s2 == IF Truthy(s1.popup_labels[FALSE])
              THEN fadein(s1, s1.popup_labels[s1.active])
              ELSE s1
    IN  IF s2.active THEN config_colors(s2) ELSE s2

hover_enter(self) ==
    IF ~self.hovering
    THEN LET s1 == [self EXCEPT !.hovering = TRUE]
             s2 == IF Truthy(s1.popup_labels[FALSE])
                   THEN fadein(s1, s1.popup_labels[s1.active])
                   ELSE s1
         IN  IF s2.active THEN config_colors(s2) ELSE s2
    ELSE self

hover_leave(self) ==
    IF self.hovering
    THEN LET s1 == [self EXCEPT !.hovering = FALSE]
             s2 == IF Truthy(s1.popup_labels[FALSE])
                   THEN fadeout(s1)
                   ELSE s1
         IN  IF s2.active THEN config_colors(s2) ELSE s2
    ELSE self

\* select that forgets to call config_colors.
select_no_config(self) ==
    IF self.selectable /\ ~self.selected
    THEN [self EXCEPT !.selected = TRUE]
    ELSE self

select(self) ==
    IF self.selectable /\ ~self.selected
    THEN config_colors([self EXCEPT !.selected = TRUE])
    ELSE self

deselect(self) ==
    IF self.selected
    THEN config_colors([self EXCEPT !.selected = FALSE])
    ELSE self

\* ------------------------------------------------------------------ widget state

\* The widget as the methods below see it: the buttons, the callbacks made so
\* far, and DoubleIconButton's pack state and status.
World ==
    [widget |-> widget, btn |-> btn, calls |-> calls,
     packed |-> packed, double_status |-> double_status]

\* A call of a user callback: its name, its arguments, and what the widget
\* held while it ran (selected of the clicked button, DoubleIconButton.get()).
call(w, b, fn, args) ==
    [w EXCEPT !.calls = Append(@,
        [fn |-> fn, args |-> args,
         selected |-> w.btn[b].selected, status |-> w.double_status])]

\* click that calls the toggle command before flipping selected.
click_call_first(w, b) ==
    LET w1 == IF w.btn[b].toggle_command # None
              THEN call(w, b, w.btn[b].toggle_command, <<w.btn[b].selected>>)
              ELSE w
    IN  [w1 EXCEPT !.btn[b] = config_colors([@ EXCEPT !.selected = ~@])]

\* ToggleIconButton.click / ToggleLabelButton.click
click(w, b) ==
    LET w1 == [w EXCEPT !.btn[b] = config_colors([@ EXCEPT !.selected = ~@])]
    IN  IF w1.btn[b].toggle_command # None
        THEN call(w1, b, w1.btn[b].toggle_command, <<w1.btn[b].selected>>)
        ELSE w1

\* DoubleIconButton.switch1 / switch2: pack_forget the other button, pack this one.
switch1(w) ==
    [w EXCEPT !.double_status = FALSE,
              !.packed = (@ \ {"Button2"}) \cup {"Button1"}]

\* switch2 that packs Button2 without forgetting Button1.
switch2_no_forget(w) ==
    [w EXCEPT !.double_status = TRUE, !.packed = @ \cup {"Button2"}]

switch2(w) ==
    [w EXCEPT !.double_status = TRUE,
              !.packed = (@ \ {"Button1"}) \cup {"Button2"}]

\* click1 that calls command1 before switching.
click1_call_first(w) ==
    switch2(call(w, "Button1", w.widget.command1.fn, w.widget.command1.args))

click1(w) ==
    LET w1 == switch2(w)
    IN  call(w1, "Button1", w1.widget.command1.fn, w1.widget.command1.args)

click2(w) ==
    LET w1 == switch1(w)
    IN  call(w1, "Button2", w1.widget.command2.fn, w1.widget.command2.args)

\* DoubleIconButton.get
get(w) == w.double_status

\* self.click_command(): the callable handed to BaseButton.__init__.
click_command(w, b) ==
    CASE w.btn[b].click_command = "click" -> click(w, b)
      [] w.btn[b].click_command = "click1" -> click1(w)
      [] w.btn[b].click_command = "click2" -> click2(w)
      [] OTHER -> call(w, b, w.btn[b].click_command, <<>>)

\* click_button without the check of self.active.
click_button_always(w, b) ==
    LET w1 == click_command(w, b)
    IN  IF w1.btn[b].select_on_click
        THEN [w1 EXCEPT !.btn[b] = select(@)]
        ELSE w1

\* click_button that selects before it calls the command.
click_button_select_first(w, b) ==
    IF w.btn[b].active
    THEN LET w1 == IF w.btn[b].select_on_click
                   THEN [w EXCEPT !.btn[b] = select(@)]
                   ELSE w
         IN  click_command(w1, b)
    ELSE w

click_button(w, b) ==
    IF w.btn[b].active
    THEN LET w1 == click_command(w, b)
         IN  IF w1.btn[b].select_on_click
             THEN [w1 EXCEPT !.btn[b] = select(@)]
             ELSE w1
    ELSE w

\* DoubleIconButton.__init__: two unselectable IconButtons, Button1 packed.
DoubleIconButton(class, command1, command2, popup_label1, popup_label2, c) ==
    [widget |-> [class |-> class, command1 |-> command1, command2 |-> command2,
                 arg |-> None],
     btn |-> [b \in {"Button1", "Button2"} |->
                IF b = "Button1"
                THEN IconButton("click1", popup_label1, FALSE, TRUE, FALSE, c)
                ELSE IconButton("click2", popup_label2, FALSE, TRUE, FALSE, c)],
     calls |-> <<>>,
     packed |-> {"Button1"},
     double_status |-> FALSE]

\* CheckButton.__init__: command1 = lambda: command(True), command2 = lambda:
\* command(False); an initially active box is reached by clicking Button1.
\* arg keeps the `active` it was built with.
CheckButton(inactive_popup_label, active_popup_label, active, c) ==
    LET w == DoubleIconButton("CheckButton",
                              [fn |-> "command", args |-> <<TRUE>>],
                              [fn |-> "command", args |-> <<FALSE>>],
                              inactive_popup_label, active_popup_label, c)
        w0 == [w EXCEPT !.widget.arg = active]
    IN  IF active THEN click_button(w0, "Button1") ELSE w0

\* A widget made of one button; arg keeps the `selected` it was built with.
Single(self) ==
    [widget |-> [class |-> self.kind, command1 |-> None, command2 |-> None,
                 arg |-> self.selected],
     btn |-> [b \in {"button"} |-> self],
     calls |-> <<>>,
     packed |-> {},
     double_status |-> FALSE]

\* ------------------------------------------------------------------ PlayerButtons

\* self.buttons, in grid order; "play_button" is the DoubleIconButton, a Frame
\* that holds Button1 and Button2.
Controls == <<"previous", "back", "play_button", "forward", "next", "loop">>

\* for button in self.buttons: button.turn_on() / button.turn_off(), from the
\* i-th button on. DoubleIconButton defines neither method, so the loop ends
\* there with an AttributeError.
RECURSIVE PlayerButtons_turn(_, _, _)
PlayerButtons_turn(w, on, i) ==
    IF i > Len(Controls)
    THEN [w |-> w, error |-> None]
    ELSE IF Controls[i] \notin DOMAIN w.btn
         THEN [w |-> w, error |-> "AttributeError"]
         ELSE PlayerButtons_turn(
                  [w EXCEPT !.btn[Controls[i]] = IF on THEN turn_on(@) ELSE turn_off(@)],
                  on, i + 1)

PlayerButtons_turn_on(w) == PlayerButtons_turn(w, TRUE, 1)

PlayerButtons_turn_off(w) == PlayerButtons_turn(w, FALSE, 1)

\* PlayerButtons.__init__: five IconButtons (two of them inside the
\* DoubleIconButton) and the loop ToggleIconButton, then turn_off() when not
\* active. arg keeps the `active` it was built with.
PlayerButtons(bg, active_icon_color, active) ==
    LET bkwargs == [DefaultColors EXCEPT !.inactive_bg = bg]
        play_button == DoubleIconButton("PlayerButtons",
                                        [fn |-> "play_function", args |-> <<>>],
                                        [fn |-> "stop_function", args |-> <<>>],
                                        "Play", "Pause", bkwargs)
        others == [b \in {"previous", "back", "forward", "next", "loop"} |->
            CASE b = "previous" ->
                   IconButton("previous_function", "Skip to Start", FALSE, TRUE, FALSE, bkwargs)
              [] b = "back" ->
                   IconButton("step_back_function", "Back 5 Seconds", FALSE, TRUE, FALSE, bkwargs)
              [] b = "forward" ->
                   IconButton("step_forward_function", "Forward 5 Seconds", FALSE, TRUE, FALSE, bkwargs)
              [] b = "next" ->
                   IconButton("next_function", "Skip to End", FALSE, TRUE, FALSE, bkwargs)
              [] b = "loop" ->
                   ToggleIconButton(None, "Toggle Loop", TRUE, FALSE,
                                    [DefaultColors EXCEPT !.active_bg = bg,
                                                          !.inactive_bg = bg,
                                                          !.active_fg = active_icon_color])]
        w == [play_button EXCEPT !.widget.arg = active, !.btn = @ @@ others]
    IN  IF ~active THEN PlayerButtons_turn_off(w) ELSE [w |-> w, error |-> None]

is_looped(w) == w.btn["loop"].selected

\* to_stop that clicks the play button.
to_stop_clicks(w) == click1(w)

to_stop(w) == switch2(w)

to_play(w) == switch1(w)

\* ------------------------------------------------------------------ actions

DoubleClasses == {"DoubleIconButton", "CheckButton"}

\* A call that returned, and one that raised.
Returned(op) == [op |-> op, error |-> None]

Raised(op, error) == [op |-> op, error |-> error]

StartWorld(w) ==
    /\ widget = w.widget /\ btn = w.btn /\ calls = w.calls
    /\ packed = w.packed /\ double_status = w.double_status
    /\ clicks = 0 /\ color_sets = 0 /\ reselected = FALSE
    /\ pdf = None /\ pc = "idle" /\ threads = <<>> /\ hist = None

Start(w) == StartWorld(w) /\ outcome = Returned("__init__")

Commit(w) ==
    /\ btn' = w.btn /\ calls' = w.calls
    /\ packed' = w.packed /\ double_status' = w.double_status
    /\ UNCHANGED widget

\* Pointer events reach a sub-button of a DoubleIconButton only while it is packed.
Visible(b) == b \in {"Button1", "Button2"} => b \in packed

\* <Enter> binding
EnterAt(b) ==
    /\ Visible(b)
    /\ btn' = [btn EXCEPT ![b] = hover_enter(@)]
    /\ UNCHANGED <<widget, calls, clicks, color_sets, reselected, packed, double_status, pdfVars, outcome>>

\* <Leave> binding (also delivered to a button unmapped under the pointer)
LeaveAt(b) ==
    /\ btn' = [btn EXCEPT ![b] = hover_leave(@)]
    /\ UNCHANGED <<widget, calls, clicks, color_sets, reselected, packed, double_status, pdfVars, outcome>>

\* <Button-1> bindings and the icon's Button command
ClickAt(b) ==
    /\ Visible(b)
    /\ clicks < MaxClicks /\ Len(calls) < MaxCalls
    /\ clicks' = clicks + 1
    /\ Commit(click_button(World, b))
    /\ UNCHANGED <<color_sets, reselected, pdfVars, outcome>>

SelectAt(b) ==
    /\ btn' = [btn EXCEPT ![b] = select(@)]
    /\ reselected' = TRUE
    /\ UNCHANGED <<widget, calls, clicks, color_sets, packed, double_status, pdfVars, outcome>>

DeselectAt(b) ==
    /\ btn' = [btn EXCEPT ![b] = deselect(@)]
    /\ reselected' = TRUE
    /\ UNCHANGED <<widget, calls, clicks, color_sets, packed, double_status, pdfVars, outcome>>

TurnOnAt(b) ==
    /\ btn' = [btn EXCEPT ![b] = turn_on(@)]
    /\ UNCHANGED <<widget, calls, clicks, color_sets, reselected, packed, double_status, pdfVars, outcome>>

TurnOffAt(b) ==
    /\ btn' = [btn EXCEPT ![b] = turn_off(@)]
    /\ UNCHANGED <<widget, calls, clicks, color_sets, reselected, packed, double_status, pdfVars, outcome>>

NewColors == {"#abcdef"}

\* set_color of the button's class: IconButton overrides it without `all`.
SetColorAt(b) ==
    /\ color_sets < MaxSetColor
    /\ color_sets' = color_sets + 1
    /\ \E color \in NewColors, which \in Which, s \in BOOLEAN, h \in BOOLEAN :
         IF btn[b].kind \in IconKinds
         THEN btn' = [btn EXCEPT ![b] = IconButton_set_color(@, color, which, s, h)]
         ELSE \E all \in BOOLEAN :
                btn' = [btn EXCEPT ![b] = BaseButton_set_color(@, color, which, s, h, all)]
    /\ UNCHANGED <<widget, calls, clicks, reselected, packed, double_status, pdfVars, outcome>>

\* The events and calls, on any button of the widget.
OnEnter == \E b \in DOMAIN btn : EnterAt(b)

OnLeave == \E b \in DOMAIN btn : LeaveAt(b)

OnButton1 == \E b \in DOMAIN btn : ClickAt(b)

CallSelect == \E b \in DOMAIN btn : SelectAt(b)

CallDeselect == \E b \in DOMAIN btn : DeselectAt(b)

CallTurnOn == \E b \in DOMAIN btn : TurnOnAt(b)

CallTurnOff == \E b \in DOMAIN btn : TurnOffAt(b)

CallSetColor == \E b \in DOMAIN btn : SetColorAt(b)

CallSwitch1 ==
    /\ Commit(switch1(World))
    /\ UNCHANGED <<clicks, color_sets, reselected, pdfVars, outcome>>

CallSwitch2 ==
    /\ Commit(switch2(World))
    /\ UNCHANGED <<clicks, color_sets, reselected, pdfVars, outcome>>

CallClick1 ==
    /\ Len(calls) < MaxCalls
    /\ Commit(click1(World))
    /\ UNCHANGED <<clicks, color_sets, reselected, pdfVars, outcome>>

CallClick2 ==
    /\ Len(calls) < MaxCalls
    /\ Commit(click2(World))
    /\ UNCHANGED <<clicks, color_sets, reselected, pdfVars, outcome>>

\* The PlayerButtons object exists: its constructor returned.
Built == ~(outcome.op = "__init__" /\ outcome.error # None)

\* The pointer is over at most one button: <Enter> on one button follows the
\* <Leave> of the button it came from.
OnEnterNext ==
    /\ Built
    /\ \A o \in DOMAIN btn : ~btn[o].hovering
    /\ OnEnter

OnLeavePlayer == Built /\ OnLeave

OnButton1Player == Built /\ clicks < MaxPlayerClicks /\ OnButton1

CallToStop ==
    /\ Built
    /\ Commit(to_stop(World))
    /\ UNCHANGED <<clicks, color_sets, reselected, pdfVars, outcome>>

CallToPlay ==
    /\ Built
    /\ Commit(to_play(World))
    /\ UNCHANGED <<clicks, color_sets, reselected, pdfVars, outcome>>

CallPlayerTurnOn ==
    /\ Built
    /\ LET r == PlayerButtons_turn_on(World)
       IN  Commit(r.w) /\ outcome' = Raised("turn_on", r.error)
    /\ UNCHANGED <<clicks, color_sets, reselected, pdfVars>>

CallPlayerTurnOff ==
    /\ Built
    /\ LET r == PlayerButtons_turn_off(World)
       IN  Commit(r.w) /\ outcome' = Raised("turn_off", r.error)
    /\ UNCHANGED <<clicks, color_sets, reselected, pdfVars>>

\* ------------------------------------------------------------------ specifications

PopupLabels == {None, "Tip"}

\* One IconButton, LabelButton, ToggleIconButton or ToggleLabelButton with the
\* default colours, under every event and every method but set_color.
InitButton ==
    \E popup_label \in PopupLabels, selectable \in BOOLEAN, selected \in BOOLEAN :
        \/ \E select_on_click \in BOOLEAN :
             \/ Start(Single(IconButton("command", popup_label, selectable,
                                        select_on_click, selected, DefaultColors)))
             \/ Start(Single(LabelButton("command", popup_label, selectable,
                                         select_on_click, selected, DefaultColors)))
        \/ \E command \in {None, "toggle_command"} :
             \/ Start(Single(ToggleIconButton(command, popup_label, selectable,
                                              selected, DefaultColors)))
             \/ Start(Single(ToggleLabelButton(command, popup_label, selectable,
                                               selected, DefaultColors)))

NextButton ==
    \/ OnEnter
    \/ OnLeave
    \/ OnButton1
    \/ CallSelect
    \/ CallDeselect
    \/ CallTurnOn
    \/ CallTurnOff

SpecButton == InitButton /\ [][NextButton]_vars

\* One IconButton or LabelButton with a tool tip and the default colours, under
\* every event and method, set_color included.
InitColor ==
    \E selectable \in BOOLEAN, select_on_click \in BOOLEAN, selected \in BOOLEAN :
        \/ Start(Single(IconButton("command", "Tip", selectable,
                                   select_on_click, selected, DefaultColors)))
        \/ Start(Single(LabelButton("command", "Tip", selectable,
                                    select_on_click, selected, DefaultColors)))

NextColor ==
    \/ OnEnter
    \/ OnLeave
    \/ OnButton1
    \/ CallSelect
    \/ CallDeselect
    \/ CallTurnOn
    \/ CallTurnOff
    \/ CallSetColor

SpecColor == InitColor /\ [][NextColor]_vars

\* Every choice of None / given for the optional colour parameters.
Opt(name) == {None, name}

ColorChoices ==
    {[active_bg |-> "active_bg", inactive_bg |-> "inactive_bg",
      active_hover_bg |-> ahb, inactive_hover_bg |-> ihb,
      active_fg |-> "active_fg", inactive_fg |-> "inactive_fg",
      active_hover_fg |-> ahf, inactive_hover_fg |-> ihf,
      active_bar_color |-> ab, inactive_bar_color |-> ib,
      active_hover_bar_color |-> ahbar, inactive_hover_bar_color |-> ihbar,
      off_fg |-> "off_fg"] :
        ahb \in Opt("active_hover_bg"), ihb \in Opt("inactive_hover_bg"),
        ahf \in Opt("active_hover_fg"), ihf \in Opt("inactive_hover_fg"),
        ab \in Opt("active_bar_color"), ib \in Opt("inactive_bar_color"),
        ahbar \in Opt("active_hover_bar_color"),
        ihbar \in Opt("inactive_hover_bar_color")}

InitLookup ==
    \E c \in ColorChoices :
        \/ Start(Single(IconButton("command", None, TRUE, TRUE, FALSE, c)))
        \/ Start(Single(LabelButton("command", None, TRUE, TRUE, FALSE, c)))

NextLookup == CallSetColor

SpecLookup == InitLookup /\ [][NextLookup]_vars

\* A DoubleIconButton or a CheckButton.
InitDouble ==
    \E p1 \in PopupLabels, p2 \in PopupLabels :
        \/ Start(DoubleIconButton("DoubleIconButton",
                                  [fn |-> "command1", args |-> <<>>],
                                  [fn |-> "command2", args |-> <<>>],
                                  p1, p2, DefaultColors))
        \/ \E active \in BOOLEAN : Start(CheckButton(p1, p2, active, DefaultColors))

NextDouble ==
    \/ OnEnter
    \/ OnLeave
    \/ OnButton1
    \/ CallSwitch1
    \/ CallSwitch2
    \/ CallClick1
    \/ CallClick2

SpecDouble == InitDouble /\ [][NextDouble]_vars

\* A PlayerButtons widget, built active or not.
InitPlayer ==
    \E active \in BOOLEAN :
        LET r == PlayerButtons("bg", "#ffffff", active)
        IN  StartWorld(r.w) /\ outcome = Raised("__init__", r.error)

NextPlayer ==
    \/ OnEnterNext
    \/ OnLeavePlayer
    \/ OnButton1Player
    \/ CallToStop
    \/ CallToPlay
    \/ CallPlayerTurnOn
    \/ CallPlayerTurnOff

SpecPlayer == InitPlayer /\ [][NextPlayer]_vars

\* ------------------------------------------------------------------ PdfDisplay

\* The files of the model and their page counts; any other name cannot be opened.
Pages == [f \in {"one.pdf", "two.pdf"} |-> IF f = "one.pdf" THEN 1 ELSE 2]

Files == DOMAIN Pages \cup {"missing.pdf"}

\* self.filename before the first show_pdf: the attribute does not exist.
Unset == "Unset"

\* fitz.open(self.filename) returns a document (it raises otherwise).
CanOpen(f) == f \in DOMAIN Pages

\* The PhotoImage built by one pass of the page loop of render_pdf: a new object
\* (render, page) of the file's page at dpi 72 * zoom_fact * 1.1^scale, where
\* render counts the show_pdf / zoom_in / zoom_out calls up to the one rendering.
PhotoImage(f, page, scale, render) ==
    [file |-> f, page |-> page, scale |-> scale, render |-> render]

\* self.pdf_frame = None; a Frame is named by the operation whose render made it.
NoFrame == <<>>

\* PdfDisplay.__init__; scale_fact is kept as the exponent of the zoom ratio 1.1.
PdfDisplay ==
    [scale_fact |-> 0,
     filename |-> Unset,
     img_object_list |-> <<>>,
     pdf_frame |-> NoFrame,
     active |-> FALSE,
     label_packed |-> TRUE,
     label_text |-> "No File Loaded",
     buttons_placed |-> FALSE,
     live_frames |-> {},
     pdf_text |-> <<>>]

position_buttons(self) ==
    IF self.active THEN [self EXCEPT !.buttons_placed = TRUE] ELSE self

\* remove_all that leaves the buttons frame placed.
remove_all_keep_buttons(self) ==
    [self EXCEPT !.active = FALSE,
                 !.label_packed = FALSE,
                 !.live_frames = IF self.pdf_frame # NoFrame THEN @ \ {self.pdf_frame} ELSE @]

remove_all(self) ==
    [self EXCEPT !.active = FALSE,
                 !.label_packed = FALSE,
                 !.buttons_placed = FALSE,
                 !.live_frames = IF self.pdf_frame # NoFrame THEN @ \ {self.pdf_frame} ELSE @]

\* show_pdf, zoom_in and zoom_out up to the call self.render_pdf() that
\* computes the argument of Thread(target=...).
show_pdf(self, filename) ==
    [remove_all([self EXCEPT !.scale_fact = 0, !.filename = filename])
        EXCEPT !.active = TRUE]

zoom_in(self) ==
    [remove_all([self EXCEPT !.scale_fact = @ + 1]) EXCEPT !.active = TRUE]

\* zoom_out that multiplies by the ratio, as zoom_in does.
zoom_out_multiplies(self) ==
    [remove_all([self EXCEPT !.scale_fact = @ + 1]) EXCEPT !.active = TRUE]

zoom_out(self) ==
    [remove_all([self EXCEPT !.scale_fact = @ - 1]) EXCEPT !.active = TRUE]

\* render_pdf, first statement, that keeps the images of the render before.
render_pdf_begin_keep(self) == self

\* render_pdf, first statement: self.img_object_list = []
render_pdf_begin(self) == [self EXCEPT !.img_object_list = <<>>]

\* render_pdf, one pass of the page loop
render_pdf_page(self, render) ==
    [self EXCEPT !.img_object_list =
        Append(@, PhotoImage(self.filename, Len(@) + 1, self.scale_fact, render))]

\* render_pdf after the page loop: the new frame, packed, the buttons placed
\* over it, and the images inserted into its text box.
render_pdf_frame(self, frame) ==
    LET s1 == [self EXCEPT !.pdf_frame = frame,
                           !.live_frames = @ \cup {frame},
                           !.pdf_text = <<>>]
        s2 == position_buttons(s1)
    IN  [s2 EXCEPT !.pdf_text = s2.img_object_list]

remove_pdf(self) ==
    [remove_all(self) EXCEPT !.label_text = "No File Loaded", !.label_packed = TRUE]

to_loading(self, text) ==
    [remove_all(self) EXCEPT !.label_text = text, !.label_packed = TRUE]

\* The call self.render_pdf() made by the calling thread: its first statement
\* and fitz.open; an exception ends the calling operation, no Thread is made.
EnterRender(self) ==
    /\ pdf' = render_pdf_begin(self)
    /\ pc' = IF CanOpen(self.filename) THEN "pages" ELSE "idle"

CallShowPdf ==
    /\ pc = "idle" /\ hist.ops < MaxOps
    /\ \E filename \in Files : EnterRender(show_pdf(pdf, filename))
    /\ hist' = [hist EXCEPT !.ops = @ + 1,
                            !.zoom_ins = 0, !.zoom_outs = 0]
    /\ UNCHANGED <<threads, widget, btn, calls, clicks, color_sets, reselected,
                   packed, double_status, outcome>>

CallZoomIn ==
    /\ pc = "idle" /\ hist.ops < MaxOps
    /\ EnterRender(zoom_in(pdf))
    /\ hist' = [hist EXCEPT !.ops = @ + 1, !.zoom_ins = @ + 1]
    /\ UNCHANGED <<threads, widget, btn, calls, clicks, color_sets, reselected,
                   packed, double_status, outcome>>

CallZoomOut ==
    /\ pc = "idle" /\ hist.ops < MaxOps
    /\ EnterRender(zoom_out(pdf))
    /\ hist' = [hist EXCEPT !.ops = @ + 1, !.zoom_outs = @ + 1]
    /\ UNCHANGED <<threads, widget, btn, calls, clicks, color_sets, reselected,
                   packed, double_status, outcome>>

\* The page loop of render_pdf, one page.
RenderPage ==
    /\ pc = "pages"
    /\ Len(pdf.img_object_list) < Pages[pdf.filename]
    /\ pdf' = render_pdf_page(pdf, hist.ops)
    /\ UNCHANGED <<pc, threads, hist, widget, btn, calls, clicks, color_sets,
                   reselected, packed, double_status, outcome>>

\* The rest of render_pdf; it returns None to the operation that called it.
RenderFrame ==
    /\ pc = "pages"
    /\ Len(pdf.img_object_list) = Pages[pdf.filename]
    /\ pdf' = render_pdf_frame(pdf, <<hist.ops>>)
    /\ pc' = "thread"
    /\ UNCHANGED <<threads, hist, widget, btn, calls, clicks, color_sets,
                   reselected, packed, double_status, outcome>>

\* Thread(target=self.render_pdf()).start(): the target is what render_pdf
\* returned, None; the operation returns.
StartThread ==
    /\ pc = "thread"
    /\ threads' = Append(threads, None)
    /\ pc' = "idle"
    /\ UNCHANGED <<pdf, hist, widget, btn, calls, clicks, color_sets,
                   reselected, packed, double_status, outcome>>

\* Thread.run of a started thread: a target of None is not called.
ThreadRun ==
    /\ threads # <<>>
    /\ Head(threads) = None
    /\ threads' = Tail(threads)
    /\ UNCHANGED <<pdf, pc, hist, widget, btn, calls, clicks, color_sets,
                   reselected, packed, double_status, outcome>>

CallRemovePdf ==
    /\ pc = "idle"
    /\ pdf' = remove_pdf(pdf)
    /\ UNCHANGED <<pc, threads, hist, widget, btn, calls, clicks, color_sets,
                   reselected, packed, double_status, outcome>>

LoadingTexts == {"Loading..."}

CallToLoading ==
    /\ pc = "idle"
    /\ \E text \in LoadingTexts : pdf' = to_loading(pdf, text)
    /\ UNCHANGED <<pc, threads, hist, widget, btn, calls, clicks, color_sets,
                   reselected, packed, double_status, outcome>>

\* <Configure> of the live pdf_frame
OnConfigure ==
    /\ pc = "idle"
    /\ pdf.pdf_frame \in pdf.live_frames
    /\ pdf' = position_buttons(pdf)
    /\ UNCHANGED <<pc, threads, hist, widget, btn, calls, clicks, color_sets,
                   reselected, packed, double_status, outcome>>

\* open_in_window: the file handed to PdfWindow, which shows it.
open_in_window(self) == self.filename

\* A click lands on new_button, out_button or in_button only while their
\* parent buttons_frame is placed; the three are never turned off, so
\* click_button calls their command.
OnNewButton ==
    /\ pc = "idle"
    /\ pdf.buttons_placed
    /\ hist' = [hist EXCEPT !.windows = @ \cup {open_in_window(pdf)}]
    /\ UNCHANGED <<pdf, pc, threads, widget, btn, calls, clicks, color_sets,
                   reselected, packed, double_status, outcome>>

OnOutButton == pdf.buttons_placed /\ CallZoomOut

OnInButton == pdf.buttons_placed /\ CallZoomIn

InitPdf ==
    /\ pdf = PdfDisplay
    /\ pc = "idle"
    /\ threads = <<>>
    /\ hist = [ops |-> 0, zoom_ins |-> 0, zoom_outs |-> 0, windows |-> {}]
    /\ widget = [class |-> "PdfDisplay", command1 |-> None, command2 |-> None,
                 arg |-> None]
    /\ btn = <<>>
    /\ calls = <<>> /\ clicks = 0 /\ color_sets = 0 /\ reselected = FALSE
    /\ packed = {} /\ double_status = FALSE
    /\ outcome = Returned("__init__")

NextPdf ==
    \/ CallShowPdf
    \/ CallZoomIn
    \/ CallZoomOut
    \/ RenderPage
    \/ RenderFrame
    \/ StartThread
    \/ ThreadRun
    \/ CallRemovePdf
    \/ CallToLoading
    \/ OnConfigure
    \/ OnNewButton
    \/ OnOutButton
    \/ OnInButton

SpecPdf == InitPdf /\ [][NextPdf]_vars

\* ------------------------------------------------------------------ claims

\* The colours a button with this (selected, hovering, active) must show.
Lookup(self) ==
    IF self.active
    THEN <<self.bg_colors[self.selected][self.hovering],
           self.fg_colors[self.selected][self.hovering],
           self.bar_colors[self.selected][self.hovering]>>
    ELSE <<self.bg_colors[FALSE][FALSE], self.off_fg, self.bg_colors[FALSE][FALSE]>>

Shown(self) == <<self.shown.bg, self.shown.fg, self.shown.bar>>

\* C1: for IconButton and LabelButton, after any sequence of events and
\* method calls the displayed (background, foreground, bar colour) is the
\* table entry of the current (selected, hovering), or the off colours while
\* the button is inactive.
C1_DisplayIsLookup ==
    \A b \in DOMAIN btn :
        btn[b].kind \in {"IconButton", "LabelButton"} => Shown(btn[b]) = Lookup(btn[b])

\* C1 witness: the pointer entered while the button was inactive (the tool tip
\* carries the inactive label, config_colors was skipped), one colour has been
\* set, and the button is now selected and turned on again.
C1_Witness ==
    \E b \in DOMAIN btn :
        /\ btn[b].kind = "IconButton"
        /\ btn[b].tool_tip = "Tip : Inactive"
        /\ btn[b].hovering /\ btn[b].selected /\ btn[b].active
        /\ color_sets = 1 /\ clicks = 1
        /\ btn[b].bg_colors[TRUE][TRUE] = "#abcdef"

\* C2: with the four base colours and off_fg given, background, foreground and
\* bar colour are defined for each of the 8 combinations of selected, hovering
\* and active, whatever optional colours were left None, also after set_color.
C2_LookupTotal ==
    \A b \in DOMAIN btn : \A s \in BOOLEAN, h \in BOOLEAN, a \in BOOLEAN :
        LET shown == config_colors([btn[b] EXCEPT !.selected = s, !.hovering = h,
                                                  !.active = a]).shown
        IN  shown.bg # None /\ shown.fg # None /\ shown.bar # None

\* C2 witness: every optional colour was None (the hover entries are the base
\* colours, the bar colours fell back twice) and one foreground was set since.
C2_Witness ==
    \E b \in DOMAIN btn :
        /\ btn[b].bg_colors[FALSE][TRUE] = "inactive_bg"
        /\ btn[b].bg_colors[TRUE][TRUE] = "active_bg"
        /\ btn[b].bar_colors[TRUE][TRUE] = "active_fg"
        /\ btn[b].bar_colors[FALSE][TRUE] = "inactive_bg"
        /\ btn[b].fg_colors[FALSE][TRUE] = "inactive_fg"
        /\ btn[b].fg_colors[TRUE][FALSE] = "#abcdef"
        /\ color_sets = 1

\* C3: a click delivered while the button is inactive calls no callback and
\* leaves selected as it was, for all four button classes.
C3_InactiveIgnoresClick ==
    [][\A b \in DOMAIN btn :
          (clicks' = clicks + 1 /\ ~btn[b].active) =>
              (calls' = calls /\ btn'[b].selected = btn[b].selected)]_vars

\* C3 witness: a toggle button with a command, turned off while hovered, has
\* received two clicks and no callback was made.
C3_Witness ==
    \E b \in DOMAIN btn :
        /\ btn[b].kind = "ToggleIconButton" /\ btn[b].toggle_command # None
        /\ ~btn[b].active /\ btn[b].hovering
        /\ clicks = 2 /\ calls = <<>>

\* C8: a click on an active toggle button flips selected and then calls the
\* toggle command once with the new value; without select() / deselect() in
\* between the k-th argument alternates from the negation of the initial
\* selected, so two clicks in a row restore selected.
C8_ToggleAlternates ==
    /\ [](\A b \in DOMAIN btn :
            (btn[b].kind \in ToggleKinds /\ ~reselected) =>
                \A k \in 1..Len(calls) :
                    calls[k].args = <<IF k % 2 = 1 THEN ~widget.arg ELSE widget.arg>>)
    /\ [][\A b \in DOMAIN btn :
            (btn[b].kind \in ToggleKinds /\ clicks' = clicks + 1 /\ btn[b].active) =>
                /\ btn'[b].selected = ~btn[b].selected
                /\ calls' = IF btn[b].toggle_command = None THEN calls
                            ELSE Append(calls, [fn |-> "toggle_command",
                                                args |-> <<btn'[b].selected>>,
                                                selected |-> btn'[b].selected,
                                                status |-> FALSE])]_vars

\* C8 witness: three callbacks of a toggle button built selected, with no
\* select() or deselect() in between.
C8_Witness ==
    \E b \in DOMAIN btn :
        /\ btn[b].kind = "ToggleLabelButton" /\ widget.arg = TRUE
        /\ ~reselected /\ Len(calls) = 3 /\ clicks = 3
        /\ ~btn[b].selected

\* C9: exactly one of Button1 and Button2 is packed, get() tells which, and a
\* click on the visible button leaves the other one visible.
C9_OneVisible ==
    /\ [](/\ Cardinality(packed) = 1
          /\ (get(World) = FALSE <=> packed = {"Button1"})
          /\ (get(World) = TRUE <=> packed = {"Button2"}))
    /\ [][clicks' = clicks + 1 =>
            /\ packed = {"Button1"} => packed' = {"Button2"}
            /\ packed = {"Button2"} => packed' = {"Button1"}]_vars

\* C9 witness: a DoubleIconButton back on Button1 after two clicks.
C9_Witness ==
    /\ widget.class = "DoubleIconButton"
    /\ clicks = 2 /\ Len(calls) = 2
    /\ packed = {"Button1"} /\ ~double_status

\* C10: a click on a CheckButton calls the command once with the new status,
\* which is what get() returns while the command runs; a CheckButton built
\* with active = b reports get() = b once built.
C10_CheckButton ==
    /\ (widget.class = "CheckButton" => get(World) = widget.arg)
    /\ [][(widget.class = "CheckButton" /\ clicks' = clicks + 1) =>
            /\ double_status' = ~double_status
            /\ Len(calls') = Len(calls) + 1
            /\ SubSeq(calls', 1, Len(calls)) = calls
            /\ calls'[Len(calls')].fn = "command"
            /\ calls'[Len(calls')].args = <<double_status'>>
            /\ calls'[Len(calls')].status = double_status']_vars

\* C10 witness: a CheckButton built checked has been clicked and is unchecked.
C10_Witness ==
    /\ widget.class = "CheckButton" /\ widget.arg = TRUE
    /\ clicks = 1 /\ ~double_status
    /\ Len(calls) = 2 /\ calls[2].args = <<FALSE>>

\* What a finished render of the current file at the current scale holds.
Rendered(self, render) ==
    [p \in 1..Pages[self.filename] |->
        PhotoImage(self.filename, p, self.scale_fact, render)]

\* C4: show_pdf, zoom_in and zoom_out run render_pdf on the started Thread: the
\* calling thread never stands inside render_pdf, and the target of every
\* started Thread is render_pdf.
C4_RenderOnWorker ==
    /\ pc # "pages"
    /\ \A i \in 1..Len(threads) : threads[i] = "render_pdf"

\* C5: show_pdf resets the scale exponent to 0, zoom_in adds one and zoom_out
\* takes one away, so the exponent is zoom_ins - zoom_outs since show_pdf; and
\* the render each of them made is of the current file at the new scale.
C5_ScaleIsExponent ==
    /\ pdf.scale_fact = hist.zoom_ins - hist.zoom_outs
    /\ pc = "thread" => pdf.pdf_text = Rendered(pdf, hist.ops)

\* C5 witness: show_pdf, zoom_in, zoom_out, rendered at exponent 0 again.
C5_Witness ==
    /\ pc = "thread" /\ hist.ops = 3
    /\ hist.zoom_ins = 1 /\ hist.zoom_outs = 1 /\ pdf.scale_fact = 0
    /\ pdf.filename = "two.pdf"

\* C6: while a re-render builds its page images no frame of an earlier render
\* is alive and img_object_list holds images of this render only (none when
\* the first one is built); when the render is done it holds one image per
\* page of the current file at the current scale.
C6_RerenderDiscards ==
    /\ pc = "pages" =>
        /\ pdf.live_frames = {}
        /\ pdf.img_object_list =
             SubSeq(Rendered(pdf, hist.ops), 1, Len(pdf.img_object_list))
    /\ pc = "thread" =>
        /\ pdf.img_object_list = Rendered(pdf, hist.ops)
        /\ pdf.live_frames = {pdf.pdf_frame}

\* C6 witness: a zoom re-render of a two-page file about to build its first
\* image, the frame of the render before it destroyed.
C6_Witness ==
    /\ pc = "pages" /\ pdf.img_object_list = <<>>
    /\ pdf.pdf_frame = <<1>> /\ hist.ops = 2 /\ pdf.scale_fact = 1
    /\ pdf.filename = "two.pdf"

NoFile(self) ==
    /\ ~self.active /\ self.label_packed /\ self.label_text = "No File Loaded"
    /\ self.live_frames = {}

Loading(self) ==
    /\ ~self.active /\ self.label_packed /\ self.label_text \in LoadingTexts
    /\ self.live_frames = {}

Loaded(self) ==
    /\ self.active /\ ~self.label_packed
    /\ self.live_frames = {self.pdf_frame}
    /\ \A i \in 1..Len(self.pdf_text) : self.pdf_text[i].scale = self.scale_fact

\* C7: once an operation has returned, PdfDisplay is in one of no-file,
\* loading and loaded, also after a show_pdf of a file that cannot be opened.
C7_OneOfThreeStates ==
    pc = "idle" => (NoFile(pdf) \/ Loading(pdf) \/ Loaded(pdf))

\* C12: a button built with selectable = False and selected = False is never
\* selected, whatever its class.
C12_UnselectableNeverSelected ==
    \A b \in DOMAIN btn :
        (~btn[b].selectable /\ widget.arg = FALSE) => ~btn[b].selected

\* C14: a click on an active IconButton or LabelButton calls the command once,
\* before selected changes; selected becomes (or stays) True when the button is
\* selectable and select_on_click, and is unchanged otherwise; only deselect()
\* takes selected back to False.
C14_ClickCallsThenSelects ==
    [][\A b \in DOMAIN btn :
          btn[b].kind \in {"IconButton", "LabelButton"} =>
            /\ (clicks' = clicks + 1 /\ btn[b].active) =>
                 /\ calls' = Append(calls, [fn |-> "command", args |-> <<>>,
                                            selected |-> btn[b].selected,
                                            status |-> FALSE])
                 /\ btn'[b].selected =
                      IF btn[b].selectable /\ btn[b].select_on_click
                      THEN TRUE ELSE btn[b].selected
            /\ (btn[b].selected /\ ~btn'[b].selected) => DeselectAt(b)]_vars

\* C14 witness: two clicks on a selectable IconButton: the first command ran
\* while it was unselected, the second while it was selected, and it still is.
C14_Witness ==
    \E b \in DOMAIN btn :
        /\ btn[b].kind = "IconButton"
        /\ btn[b].selectable /\ btn[b].select_on_click /\ widget.arg = FALSE
        /\ clicks = 2 /\ Len(calls) = 2
        /\ ~calls[1].selected /\ calls[2].selected
        /\ btn[b].selected /\ ~reselected

\* C15: hovering follows the last pointer event (an enter on a hovering button
\* and a leave on a button not hovering change nothing); fade-in and fade-out
\* calls alternate starting with a fade-in, and there are none without a popup
\* label; hovering is kept while inactive, where the tool tip carries the
\* ' : Inactive' label.
C15_HoverAndToolTip ==
    /\ [](\A b \in DOMAIN btn :
            /\ btn[b].tip_open \in {0, 1}
            /\ btn[b].popup_labels[TRUE] = None =>
                 (btn[b].tip_open = 0 /\ btn[b].tool_tip = None)
            /\ btn[b].popup_labels[TRUE] # None =>
                 (btn[b].tip_open = 1 <=> btn[b].hovering))
    /\ [][\A b \in DOMAIN btn :
            /\ EnterAt(b) => btn'[b].hovering
            /\ LeaveAt(b) => ~btn'[b].hovering
            /\ btn'[b].hovering # btn[b].hovering => (EnterAt(b) \/ LeaveAt(b))
            /\ (EnterAt(b) /\ btn[b].hovering) => btn' = btn
            /\ (LeaveAt(b) /\ ~btn[b].hovering) => btn' = btn
            /\ (EnterAt(b) /\ ~btn[b].hovering /\ btn[b].popup_labels[TRUE] = "Tip") =>
                 btn'[b].tool_tip = IF btn[b].active THEN "Tip" ELSE "Tip : Inactive"]_vars

\* C15 witness: the pointer is over a button that was inactive when it entered.
C15_Witness ==
    \E b \in DOMAIN btn :
        /\ btn[b].hovering /\ ~btn[b].active
        /\ btn[b].tool_tip = "Tip : Inactive" /\ btn[b].tip_open = 1
        /\ clicks = 1

\* C11: to_stop and to_play swap which of the play / pause buttons is packed
\* and do nothing else: no callback is called, and no button's selected,
\* hovering or active, nor is_looped, changes.
C11_SwitchWithoutCommand ==
    [][(CallToStop \/ CallToPlay) =>
          /\ packed' = IF CallToStop THEN {"Button2"} ELSE {"Button1"}
          /\ get([World EXCEPT !.double_status = double_status']) = CallToStop
          /\ calls' = calls
          /\ \A b \in DOMAIN btn :
                /\ btn'[b].selected = btn[b].selected
                /\ btn'[b].hovering = btn[b].hovering
                /\ btn'[b].active = btn[b].active
          /\ is_looped([World EXCEPT !.btn = btn']) = is_looped(World)]_vars

\* C11 witness: the pause button is showing although no callback was ever
\* called, with looping switched on and the pointer on the next button.
C11_Witness ==
    /\ widget.class = "PlayerButtons"
    /\ packed = {"Button2"} /\ double_status
    /\ calls = <<>>
    /\ is_looped(World) /\ btn["next"].hovering

\* C13: turn_off() and turn_on() return without error and leave all six controls
\* inactive, respectively active; while turned off no click calls a callback;
\* PlayerButtons(active=False) is built with all six controls inactive.
C13_TurnOffTurnOnAll ==
    /\ [](widget.class = "PlayerButtons" =>
            /\ outcome.error = None
            /\ (outcome.op = "turn_off" \/ (outcome.op = "__init__" /\ widget.arg = FALSE))
                 => \A b \in DOMAIN btn : ~btn[b].active
            /\ outcome.op = "turn_on" => \A b \in DOMAIN btn : btn[b].active)
    /\ [][(outcome.op = "turn_off" /\ outcome' = outcome) => calls' = calls]_vars

\* C16: the buttons frame is placed only while active is True, the pdf_frame
\* exists and filename is set to the file on view, so never in the no-file or
\* loading state; remove_pdf and to_loading hide it; a click reaches
\* open_in_window, zoom_in or zoom_out only while a PDF is on view, and every
\* PdfWindow was opened on a file that was on view.
C16_ButtonsOnlyOverPdf ==
    /\ [](/\ pdf.buttons_placed =>
               /\ pdf.active
               /\ pdf.pdf_frame # NoFrame /\ pdf.pdf_frame \in pdf.live_frames
               /\ pdf.filename # Unset /\ CanOpen(pdf.filename)
               /\ Loaded(pdf)
          /\ (NoFile(pdf) \/ Loading(pdf)) => ~pdf.buttons_placed
          /\ \A f \in hist.windows : CanOpen(f))
    /\ [][/\ (CallRemovePdf \/ CallToLoading) => ~pdf'.buttons_placed
          /\ (OnNewButton \/ OnOutButton \/ OnInButton) =>
                (Loaded(pdf) /\ ~NoFile(pdf) /\ ~Loading(pdf))
          /\ hist'.windows # hist.windows =>
                (Loaded(pdf) /\ hist'.windows = hist.windows \cup {pdf.filename})]_vars

\* C16 witness: a window was opened on one.pdf from the toolbar, and the
\* display has since gone to the loading state, with the toolbar hidden.
C16_Witness ==
    /\ hist.windows = {"one.pdf"}
    /\ Loading(pdf) /\ ~pdf.buttons_placed
    /\ pdf.filename = "one.pdf"

====
